---- MODULE Spec2Model ----
(***************************************************************************)
(* A model of DASHBOARD MIHU-MIHU/Dashboard.py: one run of the Streamlit   *)
(* script (load, mask, sidebar, filter, table, export, metrics, report     *)
(* sections), and the three masking functions taken on their own.          *)
(*                                                                         *)
(* A text is a sequence of one-character strings, a number n is Num(n),    *)
(* and a missing cell (NaN, as pandas reads an empty Excel cell) is NaN.   *)
(***************************************************************************)
EXTENDS Integers, Sequences, FiniteSets, TLC

VARIABLES
    pc,                \* position of the script run
    raw,               \* the table as load_data() read it from the file
    df,                \* the module-level table (masked in place)
    fakultas_options, semester_options,
    fakultas, semester, ipk_min, ipk_max,
    df_filtered,
    shown, csv,        \* what st.dataframe and the download button were given
    out,               \* what the report sections rendered, by section
    arg, fn, ret       \* a single call of a masking function

vars == <<pc, raw, df, fakultas_options, semester_options, fakultas, semester,
          ipk_min, ipk_max, df_filtered, shown, csv, out, arg, fn, ret>>

\* ------------------------------------------------------------------ bounds
MaxStrLen == 5
MaxRows == 2

\* ------------------------------------------------------------------ values
NaN == <<"NaN">>
None == <<"None">>
Num(n) == <<"num", n>>

Whitespace == {" ", "\t"}
Digits == {"0", "1", "2", "3", "4", "5", "6", "7", "8", "9"}

\* pd.isna(x)
IsNa(x) == x = NaN

\* str(x); str(float("nan")) is the text nan
Str(x) == IF IsNa(x) THEN <<"n", "a", "n">> ELSE x

\* "*" * n (the empty text when n <= 0)
Stars(n) == [i \in 1..n |-> "*"]

\* c.isdigit()
IsDigit(c) == c \in Digits

\* str.split(): the maximal runs of non-whitespace characters
RECURSIVE SplitRec(_, _, _)
SplitRec(s, cur, acc) ==
    IF s = <<>>
    THEN IF cur = <<>> THEN acc ELSE Append(acc, cur)
    ELSE IF Head(s) \in Whitespace
         THEN SplitRec(Tail(s), <<>>, IF cur = <<>> THEN acc ELSE Append(acc, cur))
         ELSE SplitRec(Tail(s), Append(cur, Head(s)), acc)

Split(s) == SplitRec(s, <<>>, <<>>)

\* " ".join(parts)
RECURSIVE Join(_)
Join(parts) ==
    IF parts = <<>> THEN <<>>
    ELSE IF Len(parts) = 1 THEN parts[1]
    ELSE parts[1] \o <<" ">> \o Join(Tail(parts))

\* ------------------------------------------------------- masking functions
mask_name_extra_star(name) ==
    IF IsNa(name) THEN name
    ELSE LET parts == Split(Str(name))
             masked_parts == [i \in 1..Len(parts) |->
                                 <<parts[i][1]>> \o Stars(Len(parts[i]))]
         IN  Join(masked_parts)

mask_name(name) ==
    IF IsNa(name) THEN name
    ELSE LET parts == Split(Str(name))
             masked_parts == [i \in 1..Len(parts) |->
                                 <<parts[i][1]>> \o Stars(Len(parts[i]) - 1)]
         IN  Join(masked_parts)

mask_npm_rest(npm) ==
    LET s == Str(npm)
    IN  IF Len(s) <= 3 THEN Stars(Len(s))
        ELSE SubSeq(s, 1, 3) \o Stars(Len(s) - 3)

mask_npm(npm) ==
    LET s == Str(npm)
    IN  IF Len(s) <= 3 THEN Stars(Len(s))
        ELSE SubSeq(s, 1, 3) \o Stars(5)

mask_phone_no_strip(phone) ==
    LET s == Str(phone)
    IN  IF Len(s) <= 3 THEN Stars(Len(s))
        ELSE SubSeq(s, 1, 3) \o Stars(Len(s) - 3)

mask_phone(phone) ==
    LET s == Str(phone)
        digits == SelectSeq(s, IsDigit)
    IN  IF Len(digits) <= 3 THEN Stars(Len(digits))
        ELSE SubSeq(digits, 1, 3) \o Stars(Len(digits) - 3)

\* ------------------------------------------------------------- the table
\* The columns the script looks for.  A row is a record with one field per
\* column; a table is its set of columns and its rows, and the field of a
\* column the table does not have is never read.
\*   Nama_Lengkap "Nama Lengkap", Nomor_Whatsapp "Nomor Whatsapp",
\*   Nomor_Telepon "Nomor Telepon", Mengikuti_kegiatan "Mengikuti kegiatan",
\*   Jumlah_kegiatan_category "Jumlah Mengikuti Kegiatan_category",
\*   ganggu, tugas_cat, pengaruh, waktu, menunda, sungguh, dampak: the columns
\*   named by col_name_ganggu, col_tugas_cat, col_pengaruh, col_waktu,
\*   col_menunda, col_sungguh and col_dampak.
IdentityColumns == {"Nama_Lengkap", "NPM", "Nomor_Whatsapp", "Nomor_Telepon"}
FilterColumns == {"Fakultas", "Semester", "IPK"}
CategoryColumns == {"Jumlah_kegiatan_category", "ganggu", "tugas_cat", "pengaruh",
                    "menunda", "sungguh", "dampak"}

EmptyTable == [columns |-> {}, rows |-> <<>>]

\* df.empty: no rows or no columns
IsEmpty(t) == t.rows = <<>> \/ t.columns = {}

\* df[c] as the sequence of its cells
Col(t, c) == [i \in 1..Len(t.rows) |-> t.rows[i][c]]

\* series.dropna()
DropNa(cells) == SelectSeq(cells, LAMBDA v : ~IsNa(v))

\* series.unique() after dropna(), as a set
Unique(cells) == {cells[i] : i \in {j \in 1..Len(cells) : ~IsNa(cells[j])}}

\* series.min() / series.max(): NaN is skipped, NaN when nothing is left
SeriesMin(cells) ==
    LET present == {cells[i][2] : i \in {j \in 1..Len(cells) : ~IsNa(cells[j])}}
    IN  IF present = {} THEN NaN
        ELSE Num(CHOOSE m \in present : \A x \in present : m <= x)

SeriesMax(cells) ==
    LET present == {cells[i][2] : i \in {j \in 1..Len(cells) : ~IsNa(cells[j])}}
    IN  IF present = {} THEN NaN
        ELSE Num(CHOOSE m \in present : \A x \in present : m >= x)

\* a >= b and a <= b on cells: any comparison with NaN is False
Ge(a, b) == ~IsNa(a) /\ ~IsNa(b) /\ a[2] >= b[2]
Le(a, b) == ~IsNa(a) /\ ~IsNa(b) /\ a[2] <= b[2]

\* ------------------------------------------------ SAMARKAN DATA (masking)
MaskRow(columns, row) ==
    [row EXCEPT
        !.Nama_Lengkap = IF "Nama_Lengkap" \in columns THEN mask_name(@) ELSE @,
        !.NPM = IF "NPM" \in columns THEN mask_npm(@) ELSE @,
        !.Nomor_Whatsapp = IF "Nomor_Whatsapp" \in columns THEN mask_phone(@) ELSE @,
        !.Nomor_Telepon =
            IF "Nomor_Whatsapp" \in columns THEN @
            ELSE IF "Nomor_Telepon" \in columns THEN mask_phone(@) ELSE @]

MaskTable(t) ==
    [t EXCEPT !.rows = [i \in 1..Len(t.rows) |-> MaskRow(t.columns, t.rows[i])]]

\* ----------------------------------------------------- FILTERKAN DATA
FilterStrictUpper(t, f_options, f, s_options, s, lo, hi) ==
    LET keep(row) ==
            /\ (f_options # {} => row.Fakultas \in f)
            /\ (s_options # {} => row.Semester \in s)
            /\ (lo # None => Ge(row.IPK, lo) /\ Le(row.IPK, hi) /\ row.IPK # hi)
    IN  [t EXCEPT !.rows = SelectSeq(t.rows, keep)]

\* df_filtered after the three statements of the filter block: each one keeps
\* the rows of the previous result that pass its mask, in their order.
ApplyFilters(t, f_options, f, s_options, s, lo, hi) ==
    LET byFakultas == IF f_options # {}
                      THEN SelectSeq(t.rows, LAMBDA row : row.Fakultas \in f)
                      ELSE t.rows
        bySemester == IF s_options # {}
                      THEN SelectSeq(byFakultas, LAMBDA row : row.Semester \in s)
                      ELSE byFakultas
        byIpk == IF lo # None
                 THEN SelectSeq(bySemester,
                                LAMBDA row : Ge(row.IPK, lo) /\ Le(row.IPK, hi))
                 ELSE bySemester
    IN  [t EXCEPT !.rows = byIpk]

\* --------------------------------------------------- text and statistics
UpperLetters == <<"A", "B", "C", "D", "E", "F", "G", "H", "I", "J", "K", "L", "M",
                  "N", "O", "P", "Q", "R", "S", "T", "U", "V", "W", "X", "Y", "Z">>
LowerLetters == <<"a", "b", "c", "d", "e", "f", "g", "h", "i", "j", "k", "l", "m",
                  "n", "o", "p", "q", "r", "s", "t", "u", "v", "w", "x", "y", "z">>

LowerChar(c) ==
    IF \E i \in 1..Len(UpperLetters) : UpperLetters[i] = c
    THEN LowerLetters[CHOOSE i \in 1..Len(UpperLetters) : UpperLetters[i] = c]
    ELSE c

\* str.lower()
Lower(s) == [i \in 1..Len(s) |-> LowerChar(s[i])]

\* str.strip()
Strip(s) ==
    LET keep == {i \in 1..Len(s) : s[i] \notin Whitespace}
    IN  IF keep = {} THEN <<>>
        ELSE SubSeq(s, CHOOSE i \in keep : \A j \in keep : i <= j,
                       CHOOSE i \in keep : \A j \in keep : i >= j)

Ya == <<"y", "a">>

\* series.str.lower().str.strip() == "ya"   (NaN stays NaN and compares False)
IsYa(v) == ~IsNa(v) /\ Strip(Lower(v)) = Ya

\* series.fillna("").str.lower() == "ya"
IsYaFilled(v) == Lower(IF IsNa(v) THEN <<>> ELSE v) = Ya

\* the dtype pandas gives a column of the loaded table: a column with no value
\* at all is float64, one holding texts is object; filtering keeps the dtype
IsObjectDtype(t, c) == \E i \in 1..Len(t.rows) : ~IsNa(t.rows[i][c])

\* number of cells equal to v
CountOf(cells, v) == Cardinality({i \in 1..Len(cells) : cells[i] = v})

\* the distinct non-missing cells in order of first appearance
RECURSIVE FirstSeen(_, _)
FirstSeen(cells, acc) ==
    IF cells = <<>> THEN acc
    ELSE IF IsNa(Head(cells)) \/ \E i \in 1..Len(acc) : acc[i] = Head(cells)
         THEN FirstSeen(Tail(cells), acc)
         ELSE FirstSeen(Tail(cells), Append(acc, Head(cells)))

\* stable sort of label/value records by descending value
RECURSIVE SortDesc(_)
SortDesc(recs) ==
    IF recs = <<>> THEN <<>>
    ELSE LET top == CHOOSE i \in 1..Len(recs) :
                        /\ \A j \in 1..Len(recs) : recs[i].n >= recs[j].n
                        /\ \A j \in 1..(i - 1) : recs[j].n < recs[i].n
             rest == [j \in 1..(Len(recs) - 1) |-> IF j < top THEN recs[j] ELSE recs[j + 1]]
         IN  <<recs[top]>> \o SortDesc(rest)

\* series.value_counts(): label and count, most frequent first, NaN dropped
ValueCounts(cells) ==
    LET labels == FirstSeen(cells, <<>>)
    IN  SortDesc([i \in 1..Len(labels) |->
                     [label |-> labels[i], n |-> CountOf(cells, labels[i])]])

\* x / total * 100 formatted with one decimal, in tenths of a percent
Pct(x, total) == (x * 2000 + total) \div (2 * total)

\* series.value_counts(normalize=True).mul(100)
ValueShares(cells) ==
    LET counts == ValueCounts(cells)
        total == Len(DropNa(cells))
    IN  [i \in 1..Len(counts) |->
            [label |-> counts[i].label, n |-> Pct(counts[i].n, total)]]

RECURSIVE SumOf(_)
SumOf(cells) == IF cells = <<>> THEN 0 ELSE Head(cells)[2] + SumOf(Tail(cells))

\* series.mean() in hundredths (two decimals); NaN when no value is present
Mean(cells) ==
    LET present == DropNa(cells)
    IN  IF present = <<>> THEN NaN
        ELSE Num((SumOf(present) * 200 + Len(present)) \div (2 * Len(present)))

NoText == <<>>

\* interpret_top_category(series): the sentence's label, count, share, total
interpret_top_category(cells) ==
    IF cells = <<>> THEN NoText
    ELSE LET counts == ValueCounts(cells)
             total == Len(DropNa(cells))
         IN  IF total = 0 THEN NoText
             ELSE <<[label |-> counts[1].label, top |-> counts[1].n,
                     pct |-> Pct(counts[1].n, total), total |-> total]>>

\* interpret_mean_numeric(series)
interpret_mean_numeric(cells) ==
    IF DropNa(cells) = <<>> THEN NoText ELSE <<[mean |-> Mean(cells)]>>

\* ------------------------------------------------------------ the inputs
FT == <<"F", "T">>
FH == <<"F", "H">>
CatA == <<"A">>
CatB == <<"B">>

\* the answers of the participation column, in the order Python sorts them
Answers == <<(<<" ", "y", "a">>), (<<"T", "i", "d", "a", "k">>), (<<"Y", "a">>)>>

\* the cells a column of the input file may hold
Values(c) ==
    CASE c = "Nama_Lengkap" -> {NaN, <<"A", "l", " ", "B", "o">>}
      [] c = "NPM" -> {<<"2", "3", "0", "8", "1">>}
      [] c = "Nomor_Whatsapp" -> {<<"0", "8", "-", "1", "2">>}
      [] c = "Nomor_Telepon" -> {<<"0", "8", "1", "3">>}
      [] c = "Fakultas" -> {NaN, FT, FH}
      [] c = "Semester" -> {NaN, Num(3)}
      [] c = "IPK" -> {NaN, Num(2), Num(4)}
      [] c = "Mengikuti_kegiatan" -> {NaN} \cup {Answers[i] : i \in 1..Len(Answers)}
      [] c = "waktu" -> {NaN, Num(1), Num(3)}
      [] OTHER -> {NaN, CatA, CatB}

CellsOf(c, columns) == IF c \in columns THEN Values(c) ELSE {NaN}

RowsOf(columns) ==
    [Nama_Lengkap : CellsOf("Nama_Lengkap", columns),
     NPM : CellsOf("NPM", columns),
     Nomor_Whatsapp : CellsOf("Nomor_Whatsapp", columns),
     Nomor_Telepon : CellsOf("Nomor_Telepon", columns),
     Fakultas : CellsOf("Fakultas", columns),
     Semester : CellsOf("Semester", columns),
     IPK : CellsOf("IPK", columns),
     Mengikuti_kegiatan : CellsOf("Mengikuti_kegiatan", columns),
     Jumlah_kegiatan_category : CellsOf("Jumlah_kegiatan_category", columns),
     ganggu : CellsOf("ganggu", columns),
     tugas_cat : CellsOf("tugas_cat", columns),
     pengaruh : CellsOf("pengaruh", columns),
     waktu : CellsOf("waktu", columns),
     menunda : CellsOf("menunda", columns),
     sungguh : CellsOf("sungguh", columns),
     dampak : CellsOf("dampak", columns)]

\* the column sets of the input files explored: any identity columns beside
\* the faculty, any filter columns, and the participation column with the
\* faculty and one column of a report section
ColumnSets ==
    {ids \cup {"Fakultas"} : ids \in SUBSET IdentityColumns}
    \cup (SUBSET FilterColumns)
    \cup {{"Fakultas", "Mengikuti_kegiatan", c} :
             c \in CategoryColumns \cup {"waktu", "IPK", "Fakultas"}}

TablesOver(columnSets) ==
    UNION {{[columns |-> cs, rows |-> rs] :
               rs \in UNION {[1..n -> RowsOf(cs)] : n \in 0..MaxRows}} :
           cs \in columnSets}

Sections == {"metrics", "semester", "proporsi", "violin", "keaktifan", "ganggu",
             "ketepatan", "pengaruh", "waktu", "menunda", "sungguh", "dampak"}

NotRun == [subheader |-> FALSE, chart |-> <<>>, caption |-> <<>>]
NothingRendered == [sec \in Sections |-> NotRun]

\* ----------------------------------------------------------- the script
InitWith(tables) ==
    /\ pc = "load"
    /\ raw \in tables
    /\ df = EmptyTable /\ df_filtered = EmptyTable
    /\ fakultas_options = {} /\ semester_options = {}
    /\ fakultas = {} /\ semester = {}
    /\ ipk_min = None /\ ipk_max = None
    /\ shown = <<>> /\ csv = <<>>
    /\ out = NothingRendered
    /\ arg = NaN /\ fn = "none" /\ ret = NaN

Init == InitWith(TablesOver(ColumnSets))

\* the runs over the files that hold filter columns only
InitFilter == InitWith(TablesOver(SUBSET FilterColumns))

MaskUnchanged == UNCHANGED <<arg, fn, ret>>

\* BACA DATA: load_data() returns the file's table, or an empty table when the
\* file is missing or unreadable; an empty table stops the script with a note.
Load ==
    /\ pc = "load"
    /\ \/ df' = raw
       \/ df' = EmptyTable
    /\ pc' = IF IsEmpty(df') THEN "stopped" ELSE "mask"
    /\ UNCHANGED <<raw, fakultas_options, semester_options, fakultas, semester,
                   ipk_min, ipk_max, df_filtered, shown, csv, out>>
    /\ MaskUnchanged

\* SAMARKAN DATA
MaskData ==
    /\ pc = "mask"
    /\ df' = MaskTable(df)
    /\ pc' = "sidebar"
    /\ UNCHANGED <<raw, fakultas_options, semester_options, fakultas, semester,
                   ipk_min, ipk_max, df_filtered, shown, csv, out>>
    /\ MaskUnchanged

\* SIDEBAR FILTER: the options are the values present in each column, the two
\* multiselects return any subset of their options, and the slider any range
\* within the column's minimum and maximum.  A slider whose bounds are NaN or
\* equal is outside what st.slider documents: it raises or returns the bounds.
Sidebar ==
    /\ pc = "sidebar"
    /\ fakultas_options' = IF "Fakultas" \in df.columns
                           THEN Unique(Col(df, "Fakultas")) ELSE {}
    /\ semester_options' = IF "Semester" \in df.columns
                           THEN Unique(Col(df, "Semester")) ELSE {}
    /\ fakultas' \in SUBSET fakultas_options'
    /\ semester' \in SUBSET semester_options'
    /\ IF "IPK" \in df.columns
       THEN LET ipk_min_val == SeriesMin(Col(df, "IPK"))
                ipk_max_val == SeriesMax(Col(df, "IPK"))
            IN  IF IsNa(ipk_min_val) \/ ipk_min_val = ipk_max_val
                THEN \/ /\ ipk_min' = ipk_min_val /\ ipk_max' = ipk_max_val
                        /\ pc' = "filter"
                     \/ /\ ipk_min' = ipk_min_val /\ ipk_max' = ipk_max_val
                        /\ pc' = "slider_error"
                ELSE /\ \E lo \in ipk_min_val[2]..ipk_max_val[2] :
                        \E hi \in lo..ipk_max_val[2] :
                            ipk_min' = Num(lo) /\ ipk_max' = Num(hi)
                     /\ pc' = "filter"
       ELSE /\ ipk_min' = None /\ ipk_max' = None
            /\ pc' = "filter"
    /\ UNCHANGED <<raw, df, df_filtered, shown, csv, out>>
    /\ MaskUnchanged

\* FILTERKAN DATA
Filter ==
    /\ pc = "filter"
    /\ df_filtered' = ApplyFilters(df, fakultas_options, fakultas,
                                   semester_options, semester, ipk_min, ipk_max)
    /\ pc' = "table"
    /\ UNCHANGED <<raw, df, fakultas_options, semester_options, fakultas, semester,
                   ipk_min, ipk_max, shown, csv, out>>
    /\ MaskUnchanged

\* TAMPILKAN TABEL: the checkbox decides whether st.dataframe gets the table
ShowTable ==
    /\ pc = "table"
    /\ \E show_table \in BOOLEAN :
           shown' = IF show_table THEN <<df_filtered>> ELSE <<>>
    /\ pc' = "export"
    /\ UNCHANGED <<raw, df, fakultas_options, semester_options, fakultas, semester,
                   ipk_min, ipk_max, df_filtered, csv, out>>
    /\ MaskUnchanged

\* df.to_csv(index=False): the header and one line per row, NaN as the empty text
ToCsv(t) ==
    [header |-> t.columns,
     lines |-> [i \in 1..Len(t.rows) |->
                   [c \in t.columns |->
                       IF IsNa(t.rows[i][c]) THEN <<>> ELSE t.rows[i][c]]]]

\* EKSPOR CSV
ExportCsv ==
    /\ pc = "export"
    /\ csv' = <<ToCsv(df_filtered)>>
    /\ pc' = "metrics"
    /\ UNCHANGED <<raw, df, fakultas_options, semester_options, fakultas, semester,
                   ipk_min, ipk_max, df_filtered, shown, out>>
    /\ MaskUnchanged

\* ------------------------------------------------------ report sections
NA == <<"N", "/", "A">>

Rendered(sub, chart, caption) == [subheader |-> sub, chart |-> chart, caption |-> caption]

Frame == <<raw, df, fakultas_options, semester_options, fakultas, semester,
           df_filtered, shown, csv>>

\* the rows of a table whose participation answer is "ya"
Ikut(t) == SelectSeq(t.rows, LAMBDA row : IsYa(row.Mengikuti_kegiatan))

CellsIn(rows, c) == [i \in 1..Len(rows) |-> rows[i][c]]

\* stable sort of label/count records by ascending label (numbers)
RECURSIVE SortByLabel(_)
SortByLabel(recs) ==
    IF recs = <<>> THEN <<>>
    ELSE LET low == CHOOSE i \in 1..Len(recs) :
                        \A j \in 1..Len(recs) : recs[i].label[2] <= recs[j].label[2]
             rest == [j \in 1..(Len(recs) - 1) |-> IF j < low THEN recs[j] ELSE recs[j + 1]]
         IN  <<recs[low]>> \o SortByLabel(rest)

\* RINGKASAN METRIK.  The last two statistics are stored in ipk_max and ipk_min,
\* the names the slider's range had.  .str on the participation column raises
\* when the column is float64 and fillna("") had no row to turn into a text.
Metrics ==
    /\ pc = "metrics"
    /\ LET ipk == IF "IPK" \in df_filtered.columns THEN Col(df_filtered, "IPK") ELSE <<>>
           has_ipk == "IPK" \in df_filtered.columns /\ DropNa(ipk) # <<>>
           ikut == "Mengikuti_kegiatan" \in df_filtered.columns
           raises == /\ ikut
                     /\ df_filtered.rows = <<>>
                     /\ ~IsObjectDtype(df, "Mengikuti_kegiatan")
           first == [num_respondents |-> Len(df_filtered.rows),
                     mean_ipk |-> IF has_ipk THEN Mean(ipk) ELSE NA,
                     num_fakultas |-> IF "Fakultas" \in df_filtered.columns
                                      THEN Cardinality(Unique(Col(df_filtered, "Fakultas")))
                                      ELSE NA]
           aktif_count ==
               IF ikut
               THEN Len(SelectSeq(df_filtered.rows,
                                  LAMBDA row : IsYaFilled(row.Mengikuti_kegiatan)))
               ELSE NA
       IN  /\ ipk_max' = IF has_ipk THEN SeriesMax(ipk) ELSE NA
           /\ ipk_min' = IF has_ipk THEN SeriesMin(ipk) ELSE NA
           /\ IF raises
              THEN /\ out' = [out EXCEPT !["metrics"] = Rendered(FALSE, <<first>>, <<>>)]
                   /\ pc' = "error"
              ELSE /\ out' = [out EXCEPT !["metrics"] =
                                 Rendered(FALSE,
                                          <<first, [ipk_max |-> ipk_max', ipk_min |-> ipk_min',
                                                    aktif_count |-> aktif_count]>>,
                                          <<>>)]
                   /\ pc' = "semester"
    /\ UNCHANGED Frame
    /\ MaskUnchanged

\* GRAFIK: Jumlah Mahasiswa per Semester
SectionSemester ==
    /\ pc = "semester"
    /\ IF "Semester" \in df_filtered.columns
       THEN LET cells == Col(df_filtered, "Semester")
            IN  out' = [out EXCEPT !["semester"] =
                           Rendered(TRUE, <<SortByLabel(ValueCounts(cells))>>,
                                    interpret_top_category(cells))]
       ELSE UNCHANGED out
    /\ pc' = "proporsi"
    /\ UNCHANGED Frame /\ UNCHANGED <<ipk_min, ipk_max>>
    /\ MaskUnchanged

\* GRAFIK: Proporsi Keikutsertaan Kegiatan
SectionProporsi ==
    /\ pc = "proporsi"
    /\ IF "Mengikuti_kegiatan" \in df_filtered.columns
       THEN LET cells == Col(df_filtered, "Mengikuti_kegiatan")
            IN  out' = [out EXCEPT !["proporsi"] =
                           Rendered(TRUE, <<ValueCounts(cells)>>,
                                    interpret_top_category(cells))]
       ELSE UNCHANGED out
    /\ pc' = "violin"
    /\ UNCHANGED Frame /\ UNCHANGED <<ipk_min, ipk_max>>
    /\ MaskUnchanged

\* GRAFIK: Distribusi IPK Mahasiswa yang Mengikuti Kegiatan (Violin)
SectionViolin ==
    /\ pc = "violin"
    /\ IF {"Mengikuti_kegiatan", "IPK"} \subseteq df_filtered.columns
       THEN IF ~IsObjectDtype(df, "Mengikuti_kegiatan")
            THEN /\ out' = [out EXCEPT !["violin"] = Rendered(TRUE, <<>>, <<>>)]
                 /\ pc' = "error"
            ELSE LET df_ikut == Ikut(df_filtered)
                 IN  /\ out' = [out EXCEPT !["violin"] =
                                   IF df_ikut # <<>>
                                   THEN Rendered(TRUE, <<CellsIn(df_ikut, "IPK")>>,
                                                 interpret_mean_numeric(CellsIn(df_ikut, "IPK")))
                                   ELSE Rendered(TRUE, <<>>, <<>>)]
                     /\ pc' = "keaktifan"
       ELSE UNCHANGED out /\ pc' = "keaktifan"
    /\ UNCHANGED Frame /\ UNCHANGED <<ipk_min, ipk_max>>
    /\ MaskUnchanged

\* GRAFIK: Statistik Keaktifan Mahasiswa: one metric tile per category;
\* st.columns raises when asked for zero columns.
SectionKeaktifan ==
    /\ pc = "keaktifan"
    /\ IF "Jumlah_kegiatan_category" \in df_filtered.columns
       THEN LET cells == Col(df_filtered, "Jumlah_kegiatan_category")
                count_kegiatan == ValueCounts(cells)
                total == Len(DropNa(cells))
            IN  IF Len(count_kegiatan) = 0
                THEN /\ out' = [out EXCEPT !["keaktifan"] = Rendered(TRUE, <<>>, <<>>)]
                     /\ pc' = "error"
                ELSE /\ out' = [out EXCEPT !["keaktifan"] =
                                   Rendered(TRUE,
                                            <<[i \in 1..Len(count_kegiatan) |->
                                                  [label |-> count_kegiatan[i].label,
                                                   n |-> count_kegiatan[i].n,
                                                   pct |-> Pct(count_kegiatan[i].n, total)]]>>,
                                            interpret_top_category(cells))]
                     /\ pc' = "ganggu"
       ELSE UNCHANGED out /\ pc' = "ganggu"
    /\ UNCHANGED Frame /\ UNCHANGED <<ipk_min, ipk_max>>
    /\ MaskUnchanged

\* GRAFIK: Kegiatan vs Gangguan Tugas (pie)
SectionGanggu ==
    /\ pc = "ganggu"
    /\ IF "ganggu" \in df_filtered.columns
       THEN LET cells == Col(df_filtered, "ganggu")
            IN  out' = [out EXCEPT !["ganggu"] =
                           Rendered(TRUE, <<ValueShares(cells)>>,
                                    interpret_top_category(cells))]
       ELSE UNCHANGED out
    /\ pc' = "ketepatan"
    /\ UNCHANGED Frame /\ UNCHANGED <<ipk_min, ipk_max>>
    /\ MaskUnchanged

\* A section over the respondents who take part, guarded twice: the rows
\* whose answer is "ya", their shares of column c, the chart, and the sentence
\* on the top share when there is one.
ParticipantEntry(t, c) ==
    LET df_ikut == Ikut(t)
        distribusi == ValueShares(CellsIn(df_ikut, c))
    IN  IF df_ikut # <<>>
        THEN Rendered(TRUE, <<distribusi>>,
                      IF distribusi # <<>> THEN <<distribusi[1]>> ELSE <<>>)
        ELSE Rendered(TRUE, <<>>, <<>>)

\* GRAFIK: Ketepatan Mengerjakan Tugas (Hanya yg ikut)
SectionKetepatan ==
    /\ pc = "ketepatan"
    /\ IF {"Mengikuti_kegiatan", "tugas_cat"} \subseteq df_filtered.columns
       THEN IF ~IsObjectDtype(df, "Mengikuti_kegiatan")
            THEN /\ out' = [out EXCEPT !["ketepatan"] = Rendered(TRUE, <<>>, <<>>)]
                 /\ pc' = "error"
            ELSE /\ out' = [out EXCEPT !["ketepatan"] =
                               ParticipantEntry(df_filtered, "tugas_cat")]
                 /\ pc' = "pengaruh"
       ELSE UNCHANGED out /\ pc' = "pengaruh"
    /\ UNCHANGED Frame /\ UNCHANGED <<ipk_min, ipk_max>>
    /\ MaskUnchanged

\* GRAFIK: Pengaruh Kegiatan pada Motivasi (Hanya yg ikut)
SectionPengaruh ==
    /\ pc = "pengaruh"
    /\ IF {"Mengikuti_kegiatan", "pengaruh"} \subseteq df_filtered.columns
       THEN IF ~IsObjectDtype(df, "Mengikuti_kegiatan")
            THEN /\ out' = [out EXCEPT !["pengaruh"] = Rendered(TRUE, <<>>, <<>>)]
                 /\ pc' = "error"
            ELSE /\ out' = [out EXCEPT !["pengaruh"] =
                               ParticipantEntry(df_filtered, "pengaruh")]
                 /\ pc' = "waktu"
       ELSE UNCHANGED out /\ pc' = "waktu"
    /\ UNCHANGED Frame /\ UNCHANGED <<ipk_min, ipk_max>>
    /\ MaskUnchanged

\* df.groupby("Mengikuti kegiatan")[col_waktu].mean(): one line per answer
\* present, in sorted order, with the mean of its rows (NaN when none has one)
GroupMeans(t) ==
    LET present == Unique(Col(t, "Mengikuti_kegiatan"))
        keys == SelectSeq(Answers, LAMBDA k : k \in present)
    IN  [i \in 1..Len(keys) |->
            [key |-> keys[i],
             mean |-> Mean(CellsIn(SelectSeq(t.rows,
                                             LAMBDA row : row.Mengikuti_kegiatan = keys[i]),
                                   "waktu"))]]

\* the line of idxmax() / idxmin(): the first of the largest / smallest means
IdxMax(df_avg) ==
    CHOOSE i \in 1..Len(df_avg) :
        /\ ~IsNa(df_avg[i].mean)
        /\ \A j \in 1..Len(df_avg) :
               ~IsNa(df_avg[j].mean) =>
                   /\ df_avg[j].mean[2] <= df_avg[i].mean[2]
                   /\ (j < i => df_avg[j].mean[2] < df_avg[i].mean[2])

IdxMin(df_avg) ==
    CHOOSE i \in 1..Len(df_avg) :
        /\ ~IsNa(df_avg[i].mean)
        /\ \A j \in 1..Len(df_avg) :
               ~IsNa(df_avg[j].mean) =>
                   /\ df_avg[j].mean[2] >= df_avg[i].mean[2]
                   /\ (j < i => df_avg[j].mean[2] > df_avg[i].mean[2])

\* GRAFIK: Rata-rata Waktu Mengerjakan Tugas Berdasarkan Keikutsertaan.
\* idxmax() has no line to give when every mean is NaN, and the lookup raises.
SectionWaktu ==
    /\ pc = "waktu"
    /\ IF {"Mengikuti_kegiatan", "waktu"} \subseteq df_filtered.columns
       THEN LET df_avg == GroupMeans(df_filtered)
            IN  IF df_avg = <<>>
                THEN /\ out' = [out EXCEPT !["waktu"] = Rendered(TRUE, <<df_avg>>, <<>>)]
                     /\ pc' = "menunda"
                ELSE IF \A i \in 1..Len(df_avg) : IsNa(df_avg[i].mean)
                THEN /\ out' = [out EXCEPT !["waktu"] = Rendered(TRUE, <<df_avg>>, <<>>)]
                     /\ pc' = "error"
                ELSE /\ out' = [out EXCEPT !["waktu"] =
                                   Rendered(TRUE, <<df_avg>>,
                                            <<[highest |-> df_avg[IdxMax(df_avg)],
                                               lowest |-> df_avg[IdxMin(df_avg)]]>>)]
                     /\ pc' = "menunda"
       ELSE UNCHANGED out /\ pc' = "menunda"
    /\ UNCHANGED Frame /\ UNCHANGED <<ipk_min, ipk_max>>
    /\ MaskUnchanged

\* The last three sections read a table t directly: nothing is rendered when
\* no row answers "ya"; otherwise the chart is drawn and the first line of the
\* sorted shares is taken without a guard, which raises when there is none.
UnguardedSection(sec, t, c, next) ==
    IF {"Mengikuti_kegiatan", c} \subseteq t.columns
    THEN IF ~IsObjectDtype(df, "Mengikuti_kegiatan")
         THEN UNCHANGED out /\ pc' = "error"
         ELSE LET df_ya == Ikut(t)
                  distribusi == ValueShares(CellsIn(df_ya, c))
              IN  IF df_ya = <<>>
                  THEN UNCHANGED out /\ pc' = next
                  ELSE IF distribusi = <<>>
                  THEN /\ out' = [out EXCEPT ![sec] = Rendered(TRUE, <<distribusi>>, <<>>)]
                       /\ pc' = "error"
                  ELSE /\ out' = [out EXCEPT ![sec] =
                                     Rendered(TRUE, <<distribusi>>, <<distribusi[1]>>)]
                       /\ pc' = next
    ELSE UNCHANGED out /\ pc' = next

\* GRAFIK: Distribusi Menunda Tugas (Responden yang Mengikuti Kegiatan)
SectionMenunda ==
    /\ pc = "menunda"
    /\ UnguardedSection("menunda", df, "menunda", "sungguh")
    /\ UNCHANGED Frame /\ UNCHANGED <<ipk_min, ipk_max>>
    /\ MaskUnchanged

\* GRAFIK: Tingkat Kesungguhan Mengerjakan Tugas
SectionSungguh ==
    /\ pc = "sungguh"
    /\ UnguardedSection("sungguh", df, "sungguh", "dampak")
    /\ UNCHANGED Frame /\ UNCHANGED <<ipk_min, ipk_max>>
    /\ MaskUnchanged

\* GRAFIK: Dampak Mengikuti Kegiatan pada Kemampuan di Bawah Tekanan
SectionDampak ==
    /\ pc = "dampak"
    /\ UnguardedSection("dampak", df, "dampak", "done")
    /\ UNCHANGED Frame /\ UNCHANGED <<ipk_min, ipk_max>>
    /\ MaskUnchanged

Next ==
    \/ Load \/ MaskData \/ Sidebar \/ Filter \/ ShowTable \/ ExportCsv \/ Metrics
    \/ SectionSemester \/ SectionProporsi \/ SectionViolin \/ SectionKeaktifan
    \/ SectionGanggu \/ SectionKetepatan \/ SectionPengaruh \/ SectionWaktu
    \/ SectionMenunda \/ SectionSungguh \/ SectionDampak

Spec == Init /\ [][Next]_vars

SpecFilter == InitFilter /\ [][Next]_vars

\* --------------------------------------------- the masking functions alone
Alphabet == {"a", "7", "8", " ", "\t"}
Texts == UNION {[1..n -> Alphabet] : n \in 0..MaxStrLen}
MaskInputs == {NaN} \cup Texts

InitMask ==
    /\ pc = "call"
    /\ arg \in MaskInputs
    /\ fn = "none"
    /\ ret = NaN
    /\ raw = EmptyTable /\ df = EmptyTable /\ df_filtered = EmptyTable
    /\ fakultas_options = {} /\ semester_options = {}
    /\ fakultas = {} /\ semester = {}
    /\ ipk_min = None /\ ipk_max = None
    /\ shown = <<>> /\ csv = <<>>
    /\ out = NothingRendered

ScriptUnchanged ==
    UNCHANGED <<raw, df, fakultas_options, semester_options, fakultas, semester,
                ipk_min, ipk_max, df_filtered, shown, csv, out>>

CallMaskName ==
    /\ pc = "call"
    /\ pc' = "returned" /\ fn' = "mask_name" /\ ret' = mask_name(arg)
    /\ UNCHANGED arg /\ ScriptUnchanged

CallMaskNpm ==
    /\ pc = "call"
    /\ pc' = "returned" /\ fn' = "mask_npm" /\ ret' = mask_npm(arg)
    /\ UNCHANGED arg /\ ScriptUnchanged

CallMaskPhone ==
    /\ pc = "call"
    /\ pc' = "returned" /\ fn' = "mask_phone" /\ ret' = mask_phone(arg)
    /\ UNCHANGED arg /\ ScriptUnchanged

NextMask == CallMaskName \/ CallMaskNpm \/ CallMaskPhone

SpecMask == InitMask /\ [][NextMask]_vars

\* ----------------------------------------------- claims on the functions
\* The words of a text, read off its positions: a word starts at a
\* non-whitespace character that is first or follows whitespace, and runs to
\* the last non-whitespace character before the next whitespace or the end.
WordStarts(s) ==
    {i \in 1..Len(s) : s[i] \notin Whitespace /\ (i = 1 \/ s[i - 1] \in Whitespace)}

WordEnd(s, i) ==
    CHOOSE j \in i..Len(s) :
        /\ \A k \in i..j : s[k] \notin Whitespace
        /\ (j = Len(s) \/ s[j + 1] \in Whitespace)

NthOf(S, k) == CHOOSE x \in S : Cardinality({y \in S : y < x}) = k - 1

TokensOf(s) ==
    [k \in 1..Cardinality(WordStarts(s)) |->
        SubSeq(s, NthOf(WordStarts(s), k), WordEnd(s, NthOf(WordStarts(s), k)))]

Returned(f) == pc = "returned" /\ fn = f

\* ------------------------------------------------- claims on the script
\* what a view shows of an identity column: nothing, or a text whose words
\* show their first character only (a name), or a text that shows nothing past
\* its third character (a student ID, a phone number)
MaskedName(v) ==
    IsNa(v) \/ \A i \in 1..Len(v) :
                   v[i] \in Whitespace \/ v[i] = "*" \/ i = 1 \/ v[i - 1] \in Whitespace

MaskedNumber(v) == IsNa(v) \/ \A i \in 4..Len(v) : v[i] = "*"

MaskedCell(c, v) == IF c = "Nama_Lengkap" THEN MaskedName(v) ELSE MaskedNumber(v)

\* C1: whatever identity columns the table has and whatever the filter
\* selection, the displayed table and the exported CSV hold only masked values
\* of every identity column present.
C1_OnlyMaskedValuesShown ==
    /\ shown # <<>> =>
           \A i \in 1..Len(shown[1].rows) :
               \A c \in IdentityColumns \cap shown[1].columns :
                   MaskedCell(c, shown[1].rows[i][c])
    /\ csv # <<>> =>
           \A i \in 1..Len(csv[1].lines) :
               \A c \in IdentityColumns \cap csv[1].header :
                   MaskedCell(c, csv[1].lines[i][c])

\* the column a participant-only section summarizes
ParticipantSections == {"ketepatan", "pengaruh", "menunda", "sungguh", "dampak"}

SectionColumn(sec) == IF sec = "ketepatan" THEN "tugas_cat" ELSE sec

\* C2: every section computes its distribution from the filtered table: the
\* shares a participant-only section charts are those of the rows of
\* df_filtered that answer "ya", so a row the filter excluded adds to none.
C2_SectionsReadFilteredTable ==
    \A sec \in ParticipantSections :
        out[sec].chart # <<>> =>
            out[sec].chart[1] =
                ValueShares(CellsIn(Ikut(df_filtered), SectionColumn(sec)))

\* the filter has run and the selection is still in its variables
Filtered == pc \in {"table", "export", "metrics"}

\* C3 (as claimed): the filtered table holds exactly the rows whose faculty is
\* in the selected faculties, whose semester is in the selected semesters and
\* whose GPA lies within the range, bounds included, in their original order;
\* a dimension whose column the table lacks asks nothing.
C3_FilterIsConjunction ==
    Filtered =>
        df_filtered.rows =
            SelectSeq(df.rows, LAMBDA row :
                /\ ("Fakultas" \in df.columns => row.Fakultas \in fakultas)
                /\ ("Semester" \in df.columns => row.Semester \in semester)
                /\ ("IPK" \in df.columns =>
                        Ge(row.IPK, ipk_min) /\ Le(row.IPK, ipk_max)))

\* C3 (amended): the same, where the faculty and the semester ask something
\* only when their column holds at least one value.
C3_FilterIsConjunctionOfOfferedDimensions ==
    Filtered =>
        df_filtered.rows =
            SelectSeq(df.rows, LAMBDA row :
                /\ (("Fakultas" \in df.columns /\ Unique(Col(df, "Fakultas")) # {})
                        => row.Fakultas \in fakultas)
                /\ (("Semester" \in df.columns /\ Unique(Col(df, "Semester")) # {})
                        => row.Semester \in semester)
                /\ ("IPK" \in df.columns =>
                        Ge(row.IPK, ipk_min) /\ Le(row.IPK, ipk_max)))

C3_Witness ==
    /\ pc = "table"
    /\ df.columns = FilterColumns
    /\ Len(df.rows) = 2 /\ Len(df_filtered.rows) = 1
    /\ df.rows[1].IPK = Num(2) /\ df.rows[1].Fakultas = FH /\ ~IsNa(df.rows[1].Semester)
    /\ df_filtered.rows[1] = df.rows[2]
    /\ fakultas = {FT} /\ semester = semester_options
    /\ ipk_min = Num(3) /\ ipk_max = Num(4)

\* C4: with every selection at its default (all faculties, all semesters, the
\* GPA range from the column's minimum to its maximum) or its column absent,
\* the filtered table holds every row of the table, rows with a missing
\* faculty, semester or GPA included.
C4_DefaultSelectionKeepsEveryRow ==
    (/\ Filtered
     /\ fakultas = fakultas_options
     /\ semester = semester_options
     /\ "IPK" \in df.columns =>
            /\ ipk_min = SeriesMin(Col(df, "IPK"))
            /\ ipk_max = SeriesMax(Col(df, "IPK")))
        => df_filtered.rows = df.rows

\* C5: given a null/missing value, each of mask_name, mask_npm and mask_phone
\* returns its input unchanged.
C5_NullPassesThrough == (pc = "returned" /\ IsNa(arg)) => ret = arg

\* C6: mask_npm returns as many asterisks as the input's string form has
\* characters when that is at most 3, and otherwise the first 3 characters
\* verbatim followed by exactly 5 asterisks, whatever the remaining length.
C6_MaskNpmShape ==
    Returned("mask_npm") =>
        LET s == Str(arg)
        IN  IF Len(s) <= 3
            THEN Len(ret) = Len(s) /\ \A i \in 1..Len(ret) : ret[i] = "*"
            ELSE /\ Len(ret) = 3 + 5
                 /\ \A i \in 1..3 : ret[i] = s[i]
                 /\ \A i \in 4..Len(ret) : ret[i] = "*"

C6_Witness ==
    Returned("mask_npm") /\ arg = <<"7", "8", "7", "8", "a">>
        /\ ret = <<"7", "8", "7", "*", "*", "*", "*", "*">>

\* C7: mask_phone drops every non-digit; with at most 3 digits the output is
\* one asterisk per digit, otherwise the first 3 digits followed by one
\* asterisk per remaining digit: the output is as long as the digit count and
\* shows no digit after the third.
C7_MaskPhoneShape ==
    Returned("mask_phone") =>
        LET s == Str(arg)
            pos == {i \in 1..Len(s) : s[i] \in Digits}
            n == Cardinality(pos)
        IN  /\ Len(ret) = n
            /\ \A i \in 1..Len(ret) :
                   IF n > 3 /\ i <= 3 THEN ret[i] = s[NthOf(pos, i)] ELSE ret[i] = "*"

C7_Witness ==
    Returned("mask_phone") /\ arg = <<"7", " ", "8", "8", "7">>
        /\ ret = <<"7", "8", "8", "*">>

\* C8: for every (non-missing) input, the output of mask_name has as many
\* whitespace-delimited tokens as the input, each as long as the input token
\* at its place, with the token's first character kept and every other
\* character an asterisk.
C8_MaskNameTokens ==
    (Returned("mask_name") /\ ~IsNa(arg)) =>
        LET tin == TokensOf(arg)
            tout == TokensOf(ret)
        IN  /\ Len(tout) = Len(tin)
            /\ \A k \in 1..Len(tin) :
                   /\ Len(tout[k]) = Len(tin[k])
                   /\ tout[k][1] = tin[k][1]
                   /\ \A j \in 2..Len(tout[k]) : tout[k][j] = "*"

C8_Witness ==
    Returned("mask_name") /\ arg = <<"a", "7", "\t", " ", "8">>
        /\ ret = <<"a", "*", " ", "8">>

\* C9: whatever the table and the filter selection, an empty filtered table
\* included, the run reaches its end and no statement of it raises.
C9_NoFatalError == pc # "error"

\* what a section summarizes, nulls dropped and the sub-population applied
Summarized(sec) ==
    CASE sec = "semester" -> DropNa(Col(df_filtered, "Semester"))
      [] sec = "proporsi" -> DropNa(Col(df_filtered, "Mengikuti_kegiatan"))
      [] sec = "ganggu" -> DropNa(Col(df_filtered, "ganggu"))
      [] sec = "violin" -> DropNa(CellsIn(Ikut(df_filtered), "IPK"))
      [] OTHER -> DropNa(CellsIn(Ikut(df_filtered), SectionColumn(sec)))

\* C10: a section whose summarized table is empty renders no chart and no
\* caption.
C10_EmptySectionRendersNothing ==
    pc = "done" =>
        \A sec \in {"semester", "proporsi", "ganggu", "violin", "ketepatan", "pengaruh"} :
            Summarized(sec) = <<>> => out[sec].chart = <<>> /\ out[sec].caption = <<>>

\* C11: the participant predicate is the same everywhere: the metric
\* 'Mahasiswa Aktif mengikuti Kegiatan' counts exactly the rows of the filtered
\* table whose answer is "ya" once lower-cased and trimmed, the rows the
\* participant-only sections over the filtered table summarize.
C11_MetricCountsTheSectionsRows ==
    ("Mengikuti_kegiatan" \in df_filtered.columns /\ Len(out["metrics"].chart) = 2) =>
        out["metrics"].chart[2].aktif_count = Len(Ikut(df_filtered))

====
